---- MODULE Spec2Model ----
(***************************************************************************)
(* Model of the telegram-scraper crawl orchestrator (dapr.launch) and of   *)
(* the message extractor (telegramhelper.ParseMessage).                    *)
(*                                                                         *)
(* Five state machines share the module:                                   *)
(*   Spec       launch: SeedSetup, the layer/page loop, crawl.Run,         *)
(*              outlink deduplication, layer merge, StoreLayers.           *)
(*              SpecStoreFail adds a StoreLayers that may fail,            *)
(*              SpecTwoRuns runs launch twice on one stored frontier,      *)
(*              SpecCrash kills launch at any point and resumes it,        *)
(*              SpecErrorOutlinks lets crawl.Run return outlinks with an   *)
(*              error.                                                     *)
(*   SpecParse  ParseMessage: cutoff filter, permalink split, comment      *)
(*              fetch, content dispatch, reactions, record assembly,       *)
(*              StoreData, with Go's deferred recover() handlers.          *)
(*              SpecReparse extracts the same message twice.               *)
(*   SpecStart  StartDaprStandaloneMode: URL collection with               *)
(*              readURLsFromFile, the fatal exits, GenCode, launch.        *)
(*   SpecUID    messageNumber and postUid of two messages.                 *)
(*   SpecClient InitializeClient: the goroutine that creates the client,   *)
(*              the two unbuffered channels and the 30-second select.      *)
(* Go slices are 0-based; i and j keep the code's 0-based values and the   *)
(* model reads list[i + 1] and Pages[j + 1].                               *)
(***************************************************************************)
EXTENDS Integers, Sequences, FiniteSets, TLC

(* ------------------------------ bounds -------------------------------- *)

\* number of distinct identifiers the platform can ever return
NumIds == 2
\* longest outlink batch a single crawl.Run returns
MaxOutlinks == 2
\* deepest frontier a previous run may have left in the store
MaxStoredLayers == 2

IdNames == <<"a", "b", "c", "d", "e", "f">>
Ids == {IdNames[k] : k \in 1..NumIds}

(* ------------------------------ helpers ------------------------------- *)

Range(s) == {s[k] : k \in 1..Len(s)}

\* every enumeration of the finite set S without repetition: the orders in
\* which Go may range over a map whose key set is S
Perms(S) ==
    {s \in [1..Cardinality(S) -> S] : \A x \in S : \E k \in 1..Cardinality(S) : s[k] = x}

SeqsUpTo(S, n) == UNION {[1..m -> S] : m \in 0..n}

(* ------------------------------ state/Page ---------------------------- *)

Unvisited == "unvisited"
Fetched == "fetched"
Error == "error"
Statuses == {Unvisited, Fetched, Error}

\* state.Page as launch uses it: URL, Status, Timestamp
Page(url, status, ts) == [URL |-> url, Status |-> status, Timestamp |-> ts]
NoPage == Page("", "", 0)

\* a page as it is first discovered (seed or outlink)
NewPage(url) == Page(url, Unvisited, 0)

\* state.Layer
Layer(depth, pages) == [Depth |-> depth, Pages |-> pages]

URLsOf(pages) == {pages[k].URL : k \in 1..Len(pages)}
LayerURLs(ls, k) == URLsOf(ls[k].Pages)

VARIABLES
    stringList,   \* launch's seed argument
    store,        \* the frontier held by the state manager's storage
    loaded,       \* the frontier SeedSetup returned (history)
    resumed,      \* TRUE when SeedSetup found a stored frontier (history)
    list,         \* launch's local: []*state.Layer
    seenURLs,     \* launch's local: map[string]bool
    i, j,         \* loop indices (0-based)
    la,           \* launch's local: the copy of list[i].Pages[j]
    outlinks,     \* what crawl.Run returned, until it is merged
    pc,           \* position of launch
    now,          \* logical clock read by time.Now()
    visits,       \* history: the crawl.Run calls, in order
    storeCalls    \* history: number of StoreLayers calls

launchVars == <<stringList, store, loaded, resumed, list, seenURLs, i, j, la,
                outlinks, pc, now, visits, storeCalls>>

VARIABLES
    msg,            \* ParseMessage's arguments: the message and its context
    ppc,            \* position of ParseMessage
    defers,         \* the deferred recover handlers registered so far
    post,           \* named result post
    perr,           \* named result err
    messageNumber,  \* local messageNumber
    comments,       \* len(comments)
    description,    \* local description
    thumbnailPath,  \* local thumbnailPath
    videoPath,      \* local videoPath
    reactions,      \* local reactions: emoji -> count
    downloads,      \* history: remote ids handed to fetchfilefromtelegram
    uploads,        \* history: paths handed to UploadBlobFileAndDelete
    commentFetches, \* history: number of GetMessageComments calls
    storeDataCalls, \* history: number of StoreData calls
    records,        \* the records the store holds
    faulted         \* history: the step a runtime fault (panic) occurred in

parseVars == <<msg, ppc, defers, post, perr, messageNumber, comments, description,
               thumbnailPath, videoPath, reactions, downloads, uploads,
               commentFetches, storeDataCalls, records, faulted>>

VARIABLES
    uploadResults,  \* history: the result of each UploadBlobFileAndDelete call
    storeArgs,      \* history: the record and result of each StoreData call
    byUID,          \* the store's records keyed by PostUID
    calls,          \* history: number of ParseMessage calls so far
    firstPost,      \* history: the record the first ParseMessage call returned
    commentsFailed  \* history: GetMessageComments returned an error

parseHist == <<uploadResults, storeArgs, byUID, calls, firstPost, commentsFailed>>

VARIABLES
    storeFailures,  \* history: number of StoreLayers calls that failed
    run,            \* history: which launch this is, when launch is run twice
    behaviour,      \* what crawl.Run does for each page, when it is fixed
    firstRun        \* history: the visits and final frontier of the first launch

launchHist == <<storeFailures, run, behaviour, firstRun>>

VARIABLES
    urlList,        \* StartDaprStandaloneMode's argument urlList
    urlFile,        \* its argument urlFile: whether given, readable, the data
    generateCode,   \* its argument generateCode
    spc,            \* position of StartDaprStandaloneMode
    urls,           \* its local urls
    fileURLs,       \* result of readURLsFromFile: the URLs
    fileErr,        \* result of readURLsFromFile: whether err is non-nil
    exitStatus,     \* the status the process exited with, NoExit while it runs
    genCode         \* history: whether GenCode ran and how it ended

startVars == <<urlList, urlFile, generateCode, spc, urls, fileURLs, fileErr,
               exitStatus, genCode>>

VARIABLES
    pairMsgs,       \* two messages: the permalink and channel name of each
    pairNumber,     \* ParseMessage's local messageNumber for each of the two
    pairUID,        \* ParseMessage's local postUid for each of the two
    upc             \* how many of the two have been extracted

uidVars == <<pairMsgs, pairNumber, pairUID, upc>>

VARIABLES
    env,            \* what InitializeClient finds: TG_API_ID, Getwd, MkdirTemp
    ipc,            \* position of InitializeClient
    gpc,            \* position of the goroutine that calls client.NewClient
    elapsed,        \* seconds since the select was entered
    initResult      \* what InitializeClient returned

clientVars == <<env, ipc, gpc, elapsed, initResult>>

vars == <<launchVars, parseVars, parseHist, launchHist, startVars, uidVars, clientVars>>

\* what a step of launch leaves alone
launchOnly == UNCHANGED <<parseVars, parseHist, launchHist, startVars, uidVars, clientVars>>

NoFrontier == <<>>

(* ------------------------------ inputs -------------------------------- *)

\* seed lists: non-empty (StartDaprStandaloneMode exits on an empty list),
\* without repetition, in any order
SeedLists == UNION {Perms(S) : S \in SUBSET Ids \ {{}}}

\* the identifiers in the fixed order of IdNames
IdOrder == [k \in 1..NumIds |-> IdNames[k]]

\* the frontier whose layer of depth d holds the identifiers x with
\* lay[x] = d + 1 (lay[x] = 0: x is absent), page x having status st[x]
FrontierOf(lay, st, n) ==
    [k \in 1..n |->
        Layer(k - 1,
              [m \in 1..Len(SelectSeq(IdOrder, LAMBDA x : lay[x] = k)) |->
                  Page(SelectSeq(IdOrder, LAMBDA x : lay[x] = k)[m],
                       st[SelectSeq(IdOrder, LAMBDA x : lay[x] = k)[m]], 0)])]

\* n layers, none empty; identifiers are interchangeable, so the stored
\* pages are named in the order of IdNames, layer by layer
WellLayered(lay, n) ==
    /\ \A x \in Ids : lay[x] <= n
    /\ \A k \in 1..n : \E x \in Ids : lay[x] = k
    /\ \A k \in 1..NumIds : \A m \in 1..(k - 1) :
           lay[IdNames[k]] > 0 => 0 < lay[IdNames[m]] /\ lay[IdNames[m]] <= lay[IdNames[k]]

\* frontiers a previous run may have persisted: depths 0..n-1 without gaps,
\* no empty layer, no identifier in two layers, any status per page
StoredFrontiers ==
    UNION {{FrontierOf(p[1], st, p[2]) : st \in [Ids -> Statuses]} :
            p \in {q \in [Ids -> 0..MaxStoredLayers] \X (1..MaxStoredLayers) :
                     WellLayered(q[1], q[2])}}

(* ------------------------- launch: pure steps ------------------------- *)

\* part_002:136-146, the loop over outlinks: acc.seen is seenURLs and
\* acc.uniq the key set of uniqueOutlinks after the first k outlinks
RECURSIVE FilterOutlinks(_, _, _)
FilterOutlinks(ols, k, acc) ==
    IF k > Len(ols) THEN acc
    ELSE IF ols[k] \notin acc.seen
         THEN FilterOutlinks(ols, k + 1,
                  [seen |-> acc.seen \cup {ols[k]}, uniq |-> acc.uniq \cup {ols[k]}])
         ELSE FilterOutlinks(ols, k + 1, acc)

DedupOutlinks(ols, seen) == FilterOutlinks(ols, 1, [seen |-> seen, uniq |-> {}])

\* part_002:161-164, uniquePages after ranging over pages: the last page
\* written for a URL wins
LastIndexOf(pages, url) ==
    CHOOSE k \in 1..Len(pages) :
        /\ pages[k].URL = url
        /\ \A m \in (k + 1)..Len(pages) : pages[m].URL # url

UniquePages(pages) == [u \in URLsOf(pages) |-> pages[LastIndexOf(pages, u)]]

\* part_002:167-170, the slices rebuilt by ranging over the map m
MapToSlices(m) == {[k \in 1..Len(ord) |-> m[ord[k]]] : ord \in Perms(DOMAIN m)}

\* part_002:149-151, pag: the new pages in any map order
PagOrders(uniq) == {[k \in 1..Len(ord) |-> NewPage(ord[k])] : ord \in Perms(uniq)}

\* mutant of TargetDepth: the outlinks go into the layer being visited
TargetDepthSameLayer(l) == l.Depth

\* mutant of TargetDepth: the outlinks skip a depth
TargetDepthSkipsOne(l) == l.Depth + 2

\* part_002:156 and 173, the depth of the layer that receives the outlinks
\* of a page of layer l
TargetDepth(l) == l.Depth + 1

\* mutant of MergeLayer: the len(pag) > 0 test is left out
MergeLayerUnguarded(ls, l, pag) ==
    IF Len(ls) > TargetDepth(l)
    THEN {[ls EXCEPT ![TargetDepth(l) + 1].Pages = rebuilt] :
             rebuilt \in MapToSlices(UniquePages(ls[TargetDepth(l) + 1].Pages \o pag))}
    ELSE {Append(ls, Layer(TargetDepth(l), pag))}

\* part_002:153-178, the lists that folding pag into the next layer can
\* leave: the layer of depth l.Depth+1 is extended and rebuilt from a map
\* (any order), or a new layer is appended
MergeLayer(ls, l, pag) ==
    IF Len(pag) = 0 THEN {ls}
    ELSE IF Len(ls) > TargetDepth(l)
         THEN {[ls EXCEPT ![TargetDepth(l) + 1].Pages = rebuilt] :
                  rebuilt \in MapToSlices(UniquePages(ls[TargetDepth(l) + 1].Pages \o pag))}
         ELSE {Append(ls, Layer(TargetDepth(l), pag))}

\* part_002:127, la.Timestamp = time.Now() on the local copy la
StampAttempt(page, t) == [page EXCEPT !.Timestamp = t]

\* part_002:130 and 132, la.Status = ... on the local copy la
SetStatus(page, status) == [page EXCEPT !.Status = status]

(* --------------------------- launch: actions -------------------------- *)

\* history record of one crawl.Run call
Visit(url, depth, outcome) == [URL |-> url, Depth |-> depth, Outcome |-> outcome]

\* part_002:92-113 with a stored frontier: seenURLs holds the seeds only,
\* SeedSetup returns the stored frontier
SeedSetupLoad ==
    /\ pc = "start"
    /\ store # NoFrontier
    /\ seenURLs' = Range(stringList)
    /\ list' = store
    /\ loaded' = store
    /\ resumed' = TRUE
    /\ pc' = "loop"
    /\ UNCHANGED <<stringList, store, i, j, la, outlinks, now, visits, storeCalls>>
    /\ launchOnly

\* part_002:92-113 with an empty store: SeedSetup builds layer 0 from the
\* seeds and persists it
SeedSetupFresh ==
    /\ pc = "start"
    /\ store = NoFrontier
    /\ seenURLs' = Range(stringList)
    /\ list' = <<Layer(0, [k \in 1..Len(stringList) |-> NewPage(stringList[k])])>>
    /\ loaded' = list'
    /\ store' = list'
    /\ resumed' = FALSE
    /\ pc' = "loop"
    /\ UNCHANGED <<stringList, i, j, la, outlinks, now, visits, storeCalls>>
    /\ launchOnly

\* part_002:113-115, SeedSetup fails: its error is dropped, list is nil and
\* the loop body never runs
SeedSetupFail ==
    /\ pc = "start"
    /\ seenURLs' = Range(stringList)
    /\ list' = <<>>
    /\ loaded' = <<>>
    /\ pc' = "loop"
    /\ UNCHANGED <<stringList, store, resumed, i, j, la, outlinks, now, visits, storeCalls>>
    /\ launchOnly

InLayer == i < Len(list)
InPages == InLayer /\ j < Len(list[i + 1].Pages)
CurrentLayer == list[i + 1]
CurrentPage == list[i + 1].Pages[j + 1]

\* part_002:117-119, a page already fetched is skipped
SkipFetched ==
    /\ pc = "loop"
    /\ InPages
    /\ CurrentPage.Status = Fetched
    /\ j' = j + 1
    /\ UNCHANGED <<stringList, store, loaded, resumed, list, seenURLs, i, la,
                   outlinks, pc, now, visits, storeCalls>>
    /\ launchOnly

\* part_002:118-128, la := l.Pages[j] copies the page, the attempt time is
\* written to the copy and crawl.Run is called with &la
BeginVisit ==
    /\ pc = "loop"
    /\ InPages
    /\ CurrentPage.Status # Fetched
    /\ now' = now + 1
    /\ la' = StampAttempt(CurrentPage, now')
    /\ visits' = Append(visits, Visit(CurrentPage.URL, CurrentLayer.Depth, "running"))
    /\ pc' = "run"
    /\ UNCHANGED <<stringList, store, loaded, resumed, list, seenURLs, i, j,
                   outlinks, storeCalls>>
    /\ launchOnly

EndVisit(outcome) == [visits EXCEPT ![Len(visits)].Outcome = outcome]

\* part_002:128-130, crawl.Run returns an error: the outlinks are dropped
RunError ==
    /\ pc = "run"
    /\ la' = SetStatus(la, Error)
    /\ visits' = EndVisit("error")
    /\ pc' = "store"
    /\ UNCHANGED <<stringList, store, loaded, resumed, list, seenURLs, i, j,
                   outlinks, now, storeCalls>>
    /\ launchOnly

\* mutant of AfterError: the error branch falls into the merge of the
\* outlinks
AfterErrorMerges == "merge"

\* part_002:128-131 and 180, after the error branch the closure goes on to
\* StoreLayers
AfterError == "store"

\* part_002:128-130, crawl.Run returns outlinks together with the error:
\* outlinks is scoped to the if statement and the error branch does not
\* read it
RunErrorWithOutlinks ==
    /\ pc = "run"
    /\ \E ols \in SeqsUpTo(Ids, MaxOutlinks) \ {<<>>} : outlinks' = ols
    /\ la' = SetStatus(la, Error)
    /\ visits' = EndVisit("error")
    /\ pc' = AfterError
    /\ UNCHANGED <<stringList, store, loaded, resumed, list, seenURLs, i, j,
                   now, storeCalls>>
    /\ launchOnly

\* part_002:121-126, crawl.Run panics: the deferred recover logs, the rest
\* of the closure (status, merge, StoreLayers) is skipped
RunPanic ==
    /\ pc = "run"
    /\ visits' = EndVisit("panic")
    /\ la' = NoPage
    /\ j' = j + 1
    /\ pc' = "loop"
    /\ UNCHANGED <<stringList, store, loaded, resumed, list, seenURLs, i,
                   outlinks, now, storeCalls>>
    /\ launchOnly

\* part_002:128-132, crawl.Run returns outlinks and no error
RunOk ==
    /\ pc = "run"
    /\ \E ols \in SeqsUpTo(Ids, MaxOutlinks) : outlinks' = ols
    /\ la' = SetStatus(la, Fetched)
    /\ visits' = EndVisit("ok")
    /\ pc' = "merge"
    /\ UNCHANGED <<stringList, store, loaded, resumed, list, seenURLs, i, j,
                   now, storeCalls>>
    /\ launchOnly

\* part_002:133-178, deduplicate the outlinks against seenURLs and fold the
\* new pages into the next layer
Merge ==
    /\ pc = "merge"
    /\ seenURLs' = DedupOutlinks(outlinks, seenURLs).seen
    /\ \E pag \in PagOrders(DedupOutlinks(outlinks, seenURLs).uniq) :
           list' \in MergeLayer(list, CurrentLayer, pag)
    /\ outlinks' = <<>>
    /\ pc' = "store"
    /\ UNCHANGED <<stringList, store, loaded, resumed, i, j, la, now, visits, storeCalls>>
    /\ launchOnly

\* part_002:180-186, StoreLayers(list) succeeds; the closure returns and
\* the inner loop moves on
StoreLayers ==
    /\ pc = "store"
    /\ store' = list
    /\ storeCalls' = storeCalls + 1
    /\ la' = NoPage
    /\ outlinks' = <<>>
    /\ j' = j + 1
    /\ pc' = "loop"
    /\ UNCHANGED <<stringList, loaded, resumed, list, seenURLs, i, now, visits>>
    /\ launchOnly

\* part_002:180-186, StoreLayers(list) fails: the error is logged, the
\* store keeps what it held and the inner loop moves on
StoreLayersFail ==
    /\ pc = "store"
    /\ storeCalls' = storeCalls + 1
    /\ la' = NoPage
    /\ j' = j + 1
    /\ pc' = "loop"
    /\ storeFailures' = storeFailures + 1
    /\ outlinks' = <<>>
    /\ UNCHANGED <<stringList, store, loaded, resumed, list, seenURLs, i, now, visits>>
    /\ UNCHANGED <<run, behaviour, firstRun>>
    /\ UNCHANGED <<parseVars, parseHist, startVars, uidVars, clientVars>>

\* part_002:115-117, the inner loop ends: next layer
NextLayer ==
    /\ pc = "loop"
    /\ InLayer
    /\ ~InPages
    /\ i' = i + 1
    /\ j' = 0
    /\ UNCHANGED <<stringList, store, loaded, resumed, list, seenURLs, la,
                   outlinks, pc, now, visits, storeCalls>>
    /\ launchOnly

\* part_002:115 and 189, the outer loop ends: launch returns
Finish ==
    /\ pc = "loop"
    /\ ~InLayer
    /\ pc' = "done"
    /\ UNCHANGED <<stringList, store, loaded, resumed, list, seenURLs, i, j, la,
                   outlinks, now, visits, storeCalls>>
    /\ launchOnly

(* ----------------------- ParseMessage: data ---------------------------- *)

\* part_001:335, the cutoff year
CutoffYear == 2018

\* publish years of the messages examined: 2015, 2017 and the cutoff year
Years == {CutoffYear - 3, CutoffYear - 1, CutoffYear}

\* mutant of BeforeCutoff: the comparison is off by one year
BeforeCutoffOffByOne(year) == year < CutoffYear - 1

\* part_001:335, publishedAt.Year() < 2018
BeforeCutoff(year) == year < CutoffYear

\* most replies a message reports
MaxReplyCount == 1

\* strings are sequences of characters
Slash == "/"
Links == {<<>>, <<"4", "2">>, <<"c", "/", "4", "2">>, <<"c", "/">>}
ChannelNames == {<<"c", "h">>}

\* the content kinds of the type switch, part_001:365-444; "nil" is a
\* message without content, "unknown" any type the switch does not name
ContentKinds ==
    {"text", "video", "photo", "animation", "animatedEmoji", "poll", "giveaway",
     "paidMedia", "sticker", "giveawayWinners", "giveawayCompleted", "videoNote",
     "document", "unknown", "nil"}

\* kinds whose case dereferences a part of the content that a corrupt
\* message lacks (nil thumbnail, empty Sizes, nil text or caption);
\* processMessageSafely (part_001:292-295) guards the video case
CorruptPanics(kind) ==
    kind \in {"text", "photo", "animation", "poll", "giveaway", "paidMedia",
              "sticker", "videoNote", "document"}

\* kinds whose case calls UploadBlobFileAndDelete
UploadKinds == {"video", "photo", "animation", "sticker", "videoNote", "document"}

\* reaction entries: Type nil, a non-emoji type, or an emoji with a count;
\* the last list has two entries for one emoji
ReactionLists ==
    {<<>>,
     <<[Type |-> "nil", Emoji |-> "", TotalCount |-> 1]>>,
     <<[Type |-> "emoji", Emoji |-> "+", TotalCount |-> 2]>>,
     <<[Type |-> "custom", Emoji |-> "", TotalCount |-> 1],
       [Type |-> "emoji", Emoji |-> "+", TotalCount |-> 1]>>,
     <<[Type |-> "emoji", Emoji |-> "+", TotalCount |-> 2],
       [Type |-> "emoji", Emoji |-> "+", TotalCount |-> 1]>>}

\* a nil *client.Message
NilMessage ==
    [nilMsg |-> TRUE, year |-> CutoffYear, link |-> <<>>, channel |-> <<>>,
     hasReplyInfo |-> FALSE, replyCount |-> 0, kind |-> "nil", corrupt |-> FALSE,
     reactionList |-> <<>>]

\* the messages ParseMessage is called with
Messages ==
    {NilMessage} \cup
    [nilMsg : {FALSE}, year : Years, link : Links, channel : ChannelNames,
     hasReplyInfo : {TRUE}, replyCount : 0..MaxReplyCount, kind : ContentKinds,
     corrupt : BOOLEAN, reactionList : ReactionLists] \cup
    [nilMsg : {FALSE}, year : Years, link : Links, channel : ChannelNames,
     hasReplyInfo : {FALSE}, replyCount : {0}, kind : ContentKinds,
     corrupt : BOOLEAN, reactionList : ReactionLists]

NoError == "nil"
ParseFailed == "failed to parse message"

\* remote file ids carried by the content, and the absent id / empty path
\* (references are tagged tuples: a remote id, a local path, a blob key;
\* the empty string is the empty tuple)
ThumbRemoteId == <<"remote", "thumbnail">>
MediaRemoteId == <<"remote", "media">>
NoRemoteId == <<>>
NoPath == <<>>

\* the local path DownloadFile returns for a remote id
LocalPath(id) == <<"local">> \o SubSeq(id, 2, Len(id))

\* where UploadBlobFileAndDelete keeps the file it is handed for message m:
\* the blob keyed by channel name and source link
BlobRef(m) == <<"blob">> \o m.channel \o <<"/">> \o m.link

UploadOk == "ok"
UploadError == "upload error"
StoreOk == "ok"
StoreError == "store error"

\* model.Post{}: the zero record
ZeroPost ==
    [PostLink |-> <<>>, PostUID |-> <<>>, PublishedYear |-> 0, Description |-> "",
     ThumbURL |-> NoRemoteId, MediaURL |-> NoRemoteId, CommentCount |-> 0,
     CommentsCount |-> 0, Reactions |-> <<>>, PostType |-> ""]

(* ----------------------- ParseMessage: pure steps ---------------------- *)

\* strings.Split(s, sep) for a one-character separator: the segments
\* between separators, at least one (Split("", "/") is [""])
RECURSIVE SplitFrom(_, _, _, _, _)
SplitFrom(s, sep, k, cur, acc) ==
    IF k > Len(s) THEN Append(acc, cur)
    ELSE IF s[k] = sep
         THEN SplitFrom(s, sep, k + 1, <<>>, Append(acc, cur))
         ELSE SplitFrom(s, sep, k + 1, Append(cur, s[k]), acc)

Split(s, sep) == SplitFrom(s, sep, 1, <<>>, <<>>)

\* mutant of PostUidOf: no separator between number and channel name
PostUidOfUnseparated(number, channel) == number \o channel

\* mutant of PostUidOf: channel name first
PostUidOfChannelFirst(number, channel) == channel \o <<"-">> \o number

\* part_001:465, fmt.Sprintf("%s-%s", messageNumber, channelName)
PostUidOf(number, channel) == number \o <<"-">> \o channel

\* part_001:365-444, the description each case assigns (named by the field
\* of the content it is read from)
DescriptionOf(m) ==
    CASE m.kind = "text" -> "Text.Text"
      [] m.kind = "video" -> IF m.corrupt THEN "" ELSE "Caption.Text"
      [] m.kind \in {"photo", "animation", "paidMedia"} -> "Caption.Text"
      [] m.kind = "animatedEmoji" -> "Emoji"
      [] m.kind = "poll" -> "Poll.Question.Text"
      [] m.kind = "giveaway" -> "Prize.GiveawayPrizeType()"
      [] m.kind = "document" -> "Document.FileName"
      [] OTHER -> ""

\* part_001:369-434, the remote id each case assigns to thumbnailPath
ThumbnailOf(m) ==
    CASE m.kind = "video" -> IF m.corrupt THEN NoRemoteId ELSE ThumbRemoteId
      [] m.kind \in {"photo", "animation", "sticker", "videoNote", "document"} -> ThumbRemoteId
      [] OTHER -> NoRemoteId

\* part_001:369-434, the remote id each case assigns to videoPath
VideoOf(m) ==
    CASE m.kind = "video" -> IF m.corrupt THEN NoRemoteId ELSE MediaRemoteId
      [] m.kind \in {"videoNote", "document"} -> MediaRemoteId
      [] OTHER -> NoRemoteId

\* part_001:370-436, the remote ids handed to fetchfilefromtelegram, in
\* order: video fetches thumbnailPath then videoPath; video-note and
\* document fetch thumbnailPath twice
FetchedIds(m) ==
    CASE m.kind = "video" -> <<ThumbnailOf(m), VideoOf(m)>>
      [] m.kind \in {"videoNote", "document"} -> <<ThumbnailOf(m), ThumbnailOf(m)>>
      [] m.kind \in {"photo", "animation", "sticker"} -> <<ThumbnailOf(m)>>
      [] OTHER -> <<>>

\* part_001:532-569, fetchfilefromtelegram returns the local path or ""
FetchResults(id) == {NoPath, LocalPath(id)}

\* part_001:453-459, the reactions map after ranging over the entries
RECURSIVE ReactionMap(_, _, _)
ReactionMap(rs, k, acc) ==
    IF k > Len(rs) THEN acc
    ELSE IF rs[k].Type = "emoji"
         THEN ReactionMap(rs, k + 1,
                  [e \in DOMAIN acc \cup {rs[k].Emoji} |->
                      IF e = rs[k].Emoji THEN rs[k].TotalCount ELSE acc[e]])
         ELSE ReactionMap(rs, k + 1, acc)

\* the handler that recovers a panic: the one deferred last
Recoverer(ds) == ds[Len(ds)]

\* part_001:326-332, 349-353, 448-452: only the outermost handler sets err
ErrAfterRecover(ds, err) == IF Recoverer(ds) = "outer" THEN ParseFailed ELSE err

(* ----------------------- ParseMessage: actions ------------------------- *)

launchIdle == UNCHANGED <<launchVars, launchHist, startVars, uidVars, clientVars>>

\* a panic unwinds ParseMessage: the handler deferred last recovers it and
\* the named results are returned as they stand (part_001:326-332, 349-353,
\* 448-452)
PanicIn(step, ds) ==
    /\ faulted' = step
    /\ perr' = ErrAfterRecover(ds, perr)
    /\ defers' = ds
    /\ ppc' = "returned"

\* part_001:324-332, ParseMessage is entered and defers the outer recover
Enter ==
    /\ ppc = "call"
    /\ defers' = <<"outer">>
    /\ ppc' = "cutoff"
    /\ UNCHANGED <<msg, post, perr, messageNumber, comments, description,
                   thumbnailPath, videoPath, reactions, downloads, uploads,
                   commentFetches, storeDataCalls, records, faulted>>
    /\ UNCHANGED parseHist
    /\ launchIdle

\* part_001:334, message.Date of a nil message panics
NilMessagePanic ==
    /\ ppc = "cutoff"
    /\ msg.nilMsg
    /\ PanicIn("cutoff", defers)
    /\ UNCHANGED <<msg, post, messageNumber, comments, description,
                   thumbnailPath, videoPath, reactions, downloads, uploads,
                   commentFetches, storeDataCalls, records>>
    /\ UNCHANGED parseHist
    /\ launchIdle

\* part_001:334-337, a message from before the cutoff year: return
\* model.Post{}, nil
CutoffSkip ==
    /\ ppc = "cutoff"
    /\ ~msg.nilMsg
    /\ BeforeCutoff(msg.year)
    /\ post' = ZeroPost
    /\ perr' = NoError
    /\ ppc' = "returned"
    /\ UNCHANGED <<msg, defers, messageNumber, comments, description,
                   thumbnailPath, videoPath, reactions, downloads, uploads,
                   commentFetches, storeDataCalls, records, faulted>>
    /\ UNCHANGED parseHist
    /\ launchIdle

\* part_001:334-337, the message passes the cutoff
CutoffPass ==
    /\ ppc = "cutoff"
    /\ ~msg.nilMsg
    /\ ~BeforeCutoff(msg.year)
    /\ ppc' = "split"
    /\ UNCHANGED <<msg, defers, post, perr, messageNumber, comments, description,
                   thumbnailPath, videoPath, reactions, downloads, uploads,
                   commentFetches, storeDataCalls, records, faulted>>
    /\ UNCHANGED parseHist
    /\ launchIdle

\* part_001:339-345, the message number is the last segment of the link;
\* Split never returns an empty slice
SplitLink ==
    /\ ppc = "split"
    /\ IF Len(Split(msg.link, Slash)) > 0
       THEN /\ messageNumber' = Split(msg.link, Slash)[Len(Split(msg.link, Slash))]
            /\ ppc' = "comments"
            /\ UNCHANGED <<post, perr>>
       ELSE /\ post' = ZeroPost
            /\ perr' = NoError
            /\ ppc' = "returned"
            /\ UNCHANGED messageNumber
    /\ UNCHANGED <<msg, defers, comments, description, thumbnailPath, videoPath,
                   reactions, downloads, uploads, commentFetches, storeDataCalls,
                   records, faulted>>
    /\ UNCHANGED parseHist
    /\ launchIdle

\* the handlers registered once the reply-info test of part_001:348 is past
WithCommentsDefer == IF msg.hasReplyInfo THEN Append(defers, "comments") ELSE defers

\* mutant of FetchesComments: the ReplyCount test is left out
FetchesCommentsAnyCount(m) == m.hasReplyInfo

\* part_001:348 and 354, the tests that guard the GetMessageComments call
FetchesComments(m) == m.hasReplyInfo /\ m.replyCount > 0

\* len(comments) after GetMessageComments returned an error: it returns no
\* comments with the error
NoComments == 0

\* part_001:347-360, no comment fetch: no reply info or ReplyCount = 0
CommentsNone ==
    /\ ppc = "comments"
    /\ ~FetchesComments(msg)
    /\ defers' = WithCommentsDefer
    /\ ppc' = "dispatch"
    /\ UNCHANGED <<msg, post, perr, messageNumber, comments, description,
                   thumbnailPath, videoPath, reactions, downloads, uploads,
                   commentFetches, storeDataCalls, records, faulted>>
    /\ UNCHANGED parseHist
    /\ launchIdle

\* part_001:354-359, GetMessageComments returns: n comments and no error,
\* or an error and no comments (the error is logged and stays in err)
CommentsFetch ==
    /\ ppc = "comments"
    /\ FetchesComments(msg)
    /\ defers' = WithCommentsDefer
    /\ commentFetches' = commentFetches + 1
    /\ \/ /\ comments' \in 0..msg.replyCount
          /\ perr' = NoError
          /\ UNCHANGED commentsFailed
       \/ /\ comments' = NoComments
          /\ perr' = "comments error"
          /\ commentsFailed' = TRUE
    /\ ppc' = "dispatch"
    /\ UNCHANGED <<msg, post, messageNumber, description, thumbnailPath, videoPath,
                   reactions, downloads, uploads, storeDataCalls, records, faulted>>
    /\ UNCHANGED <<uploadResults, storeArgs, byUID, calls, firstPost>>
    /\ launchIdle

\* part_001:355, GetMessageComments (or chat.Id of a nil chat) panics
CommentsPanic ==
    /\ ppc = "comments"
    /\ FetchesComments(msg)
    /\ commentFetches' = commentFetches + 1
    /\ PanicIn("comments", WithCommentsDefer)
    /\ UNCHANGED <<msg, post, messageNumber, comments, description, thumbnailPath,
                   videoPath, reactions, downloads, uploads, storeDataCalls, records>>
    /\ UNCHANGED parseHist
    /\ launchIdle

\* the paths a run of fetches may return, one per remote id
RECURSIVE FetchRuns(_)
FetchRuns(ids) ==
    IF ids = <<>> THEN {<<>>}
    ELSE {<<p>> \o rest : p \in FetchResults(Head(ids)), rest \in FetchRuns(Tail(ids))}

\* part_001:371-436, err = sm.UploadBlobFileAndDelete(...): err holds the
\* result of the last upload
ErrAfterUploads(results, err) ==
    IF Len(results) = 0 THEN err
    ELSE IF results[Len(results)] = UploadOk THEN NoError ELSE UploadError

\* part_001:365-444, the type switch: description, thumbnailPath, videoPath,
\* and for the media kinds each fetch followed by UploadBlobFileAndDelete of
\* the path it returned, whose error is left in err
Dispatch ==
    /\ ppc = "dispatch"
    /\ ~(msg.corrupt /\ CorruptPanics(msg.kind))
    /\ description' = DescriptionOf(msg)
    /\ thumbnailPath' = ThumbnailOf(msg)
    /\ videoPath' = VideoOf(msg)
    /\ downloads' = downloads \o FetchedIds(msg)
    /\ \E paths \in FetchRuns(FetchedIds(msg)) : uploads' = uploads \o paths
    /\ \E results \in [1..Len(FetchedIds(msg)) -> {UploadOk, UploadError}] :
          /\ uploadResults' = uploadResults \o results
          /\ perr' = ErrAfterUploads(results, perr)
    /\ ppc' = "reactions"
    /\ UNCHANGED <<msg, defers, post, messageNumber, comments, reactions,
                   commentFetches, storeDataCalls, records, faulted>>
    /\ UNCHANGED <<storeArgs, byUID, calls, firstPost, commentsFailed>>
    /\ launchIdle

\* part_001:365-444, a case dereferences a missing part of a corrupt
\* message (content.Photo.Sizes[0], a nil Thumbnail, ...) and panics
DispatchPanic ==
    /\ ppc = "dispatch"
    /\ msg.corrupt /\ CorruptPanics(msg.kind)
    /\ PanicIn("dispatch", defers)
    /\ UNCHANGED <<msg, post, messageNumber, comments, description, thumbnailPath,
                   videoPath, reactions, downloads, uploads, commentFetches,
                   storeDataCalls, records>>
    /\ UNCHANGED parseHist
    /\ launchIdle

\* the handlers registered once the reactions test of part_001:447 is past
WithReactionsDefer ==
    IF Len(msg.reactionList) > 0 THEN Append(defers, "reactions") ELSE defers

\* part_001:446-460, the reactions map
Reactions ==
    /\ ppc = "reactions"
    /\ defers' = WithReactionsDefer
    /\ reactions' = ReactionMap(msg.reactionList, 1, <<>>)
    /\ ppc' = "assemble"
    /\ UNCHANGED <<msg, post, perr, messageNumber, comments, description,
                   thumbnailPath, videoPath, downloads, uploads, commentFetches,
                   storeDataCalls, records, faulted>>
    /\ UNCHANGED parseHist
    /\ launchIdle

\* part_001:462-514, the record is assembled into the named result post
AssembledPost ==
    [PostLink |-> msg.link, PostUID |-> PostUidOf(messageNumber, msg.channel),
     PublishedYear |-> msg.year, Description |-> description,
     ThumbURL |-> thumbnailPath, MediaURL |-> videoPath,
     CommentCount |-> comments, CommentsCount |-> comments,
     Reactions |-> reactions, PostType |-> msg.kind]

Assemble ==
    /\ ppc = "assemble"
    /\ msg.kind # "nil"
    /\ post' = AssembledPost
    /\ ppc' = "store"
    /\ UNCHANGED <<msg, defers, perr, messageNumber, comments, description,
                   thumbnailPath, videoPath, reactions, downloads, uploads,
                   commentFetches, storeDataCalls, records, faulted>>
    /\ UNCHANGED parseHist
    /\ launchIdle

\* part_001:462-501, a runtime fault while assembling: MessageContentType()
\* of a nil Content, or chat.Id, chat.Title, supergroupInfo.MemberCount of a
\* nil chat or supergroupInfo
AssemblePanic ==
    /\ ppc = "assemble"
    /\ PanicIn("assemble", defers)
    /\ UNCHANGED <<msg, post, messageNumber, comments, description, thumbnailPath,
                   videoPath, reactions, downloads, uploads, commentFetches,
                   storeDataCalls, records>>
    /\ UNCHANGED parseHist
    /\ launchIdle

\* mutant of ReturnedErr: the StoreData error is returned
ReturnedErrFromStore(storeErr) == storeErr

\* part_001:515-519, the error ParseMessage returns after StoreData: the
\* StoreData error is logged and nil is returned
ReturnedErr(storeErr) == NoError

\* the keyed store after record p is written: one record per PostUID, the
\* last one written
KeyedPut(m, p) ==
    [u \in DOMAIN m \cup {p.PostUID} |-> IF u = p.PostUID THEN p ELSE m[u]]

\* one StoreData call, for the history
StoreCall(p, result) == [post |-> p, result |-> result]

\* part_001:515-519, StoreData succeeds or fails (logged); return post, nil
StoreData ==
    /\ ppc = "store"
    /\ storeDataCalls' = storeDataCalls + 1
    /\ \/ /\ records' = records \cup {post}
          /\ byUID' = KeyedPut(byUID, post)
          /\ storeArgs' = Append(storeArgs, StoreCall(post, StoreOk))
          /\ perr' = ReturnedErr(NoError)
       \/ /\ UNCHANGED <<records, byUID>>
          /\ storeArgs' = Append(storeArgs, StoreCall(post, StoreError))
          /\ perr' = ReturnedErr(StoreError)
    /\ ppc' = "returned"
    /\ UNCHANGED <<msg, defers, post, messageNumber, comments, description,
                   thumbnailPath, videoPath, reactions, downloads, uploads,
                   commentFetches, faulted>>
    /\ UNCHANGED <<uploadResults, calls, firstPost, commentsFailed>>
    /\ launchIdle

\* part_001:515, StoreData panics
StoreDataPanic ==
    /\ ppc = "store"
    /\ storeDataCalls' = storeDataCalls + 1
    /\ PanicIn("store", defers)
    /\ storeArgs' = Append(storeArgs, StoreCall(post, "panic"))
    /\ UNCHANGED <<msg, post, messageNumber, comments, description, thumbnailPath,
                   videoPath, reactions, downloads, uploads, commentFetches, records>>
    /\ UNCHANGED <<uploadResults, byUID, calls, firstPost, commentsFailed>>
    /\ launchIdle

(* ------------------- StartDaprStandaloneMode: data -------------------- *)

\* longest seed file examined, in characters
MaxFileLen == 6

Newline == "\n"
Hash == "#"

\* the characters of the seed files examined
FileChars == {"u", Hash, " ", Newline}
FileContents == SeqsUpTo(FileChars, MaxFileLen)

\* unicode.IsSpace, for the characters met
IsSpace(c) == c \in {" ", "\t", "\r", Newline}

\* the urlList arguments examined: none, or one URL
UrlLists == {<<>>, << <<"u">> >>}

\* the urlFile arguments examined: "" (no file), a file os.ReadFile cannot
\* read, a file with any of the contents
NoUrlFile == [given |-> FALSE, readable |-> FALSE, data |-> <<>>]
UnreadableFile == [given |-> TRUE, readable |-> FALSE, data |-> <<>>]
ReadableFile(data) == [given |-> TRUE, readable |-> TRUE, data |-> data]
UrlFiles == {NoUrlFile, UnreadableFile} \cup {ReadableFile(d) : d \in FileContents}

NoExit == -1

(* ---------------- StartDaprStandaloneMode: pure steps ------------------ *)

\* strings.TrimSpace
RECURSIVE TrimLeft(_)
TrimLeft(s) == IF s # <<>> /\ IsSpace(Head(s)) THEN TrimLeft(Tail(s)) ELSE s

RECURSIVE TrimRight(_)
TrimRight(s) ==
    IF s # <<>> /\ IsSpace(s[Len(s)]) THEN TrimRight(SubSeq(s, 1, Len(s) - 1)) ELSE s

TrimSpace(s) == TrimRight(TrimLeft(s))

\* strings.HasPrefix for a one-character prefix
HasPrefix(s, c) == Len(s) > 0 /\ s[1] = c

\* mutant of KeepLine: comment lines are kept
KeepLineWithComments(line) == line # <<>>

\* part_002:74, line != "" && !strings.HasPrefix(line, "#")
KeepLine(line) == line # <<>> /\ ~HasPrefix(line, Hash)

\* part_002:72-77, the loop over the lines
RECURSIVE CollectURLs(_, _, _)
CollectURLs(lines, k, acc) ==
    IF k > Len(lines) THEN acc
    ELSE IF KeepLine(TrimSpace(lines[k]))
         THEN CollectURLs(lines, k + 1, Append(acc, TrimSpace(lines[k])))
         ELSE CollectURLs(lines, k + 1, acc)

\* part_002:68-78, the URLs of a file that was read
ReadURLs(data) == CollectURLs(Split(data, Newline), 1, <<>>)

\* mutant of NoURLs: the empty list is let through
NoURLsNever(us) == FALSE

\* part_002:41, len(urls) == 0
NoURLs(us) == Len(us) = 0

(* ------------------ StartDaprStandaloneMode: actions ------------------- *)

\* what a step of StartDaprStandaloneMode outside launch leaves alone
startOnly == UNCHANGED <<launchVars, launchHist, parseVars, parseHist, uidVars, clientVars>>

\* part_002:27-31, urls = append(urls, urlList...)
CollectList ==
    /\ spc = "start"
    /\ urls' = (IF Len(urlList) > 0 THEN urls \o urlList ELSE urls)
    /\ spc' = "file"
    /\ UNCHANGED <<urlList, urlFile, generateCode, fileURLs, fileErr, exitStatus, genCode>>
    /\ startOnly

\* part_002:33, urlFile == ""
SkipFile ==
    /\ spc = "file"
    /\ ~urlFile.given
    /\ spc' = "check"
    /\ UNCHANGED <<urlList, urlFile, generateCode, urls, fileURLs, fileErr, exitStatus,
                   genCode>>
    /\ startOnly

\* part_002:34 and 62-79, readURLsFromFile(urlFile) returns (urls, nil), or
\* (nil, err) when os.ReadFile fails
ReadURLsFromFile ==
    /\ spc = "file"
    /\ urlFile.given
    /\ IF urlFile.readable
       THEN fileURLs' = ReadURLs(urlFile.data) /\ fileErr' = FALSE
       ELSE fileURLs' = <<>> /\ fileErr' = TRUE
    /\ spc' = "fileread"
    /\ UNCHANGED <<urlList, urlFile, generateCode, urls, exitStatus, genCode>>
    /\ startOnly

\* part_002:35-37, log.Fatal: the process exits with status 1
FileFatal ==
    /\ spc = "fileread"
    /\ fileErr
    /\ exitStatus' = 1
    /\ spc' = "exited"
    /\ UNCHANGED <<urlList, urlFile, generateCode, urls, fileURLs, fileErr, genCode>>
    /\ startOnly

\* part_002:38, urls = append(urls, fileURLs...)
AppendFileURLs ==
    /\ spc = "fileread"
    /\ ~fileErr
    /\ urls' = urls \o fileURLs
    /\ spc' = "check"
    /\ UNCHANGED <<urlList, urlFile, generateCode, fileURLs, fileErr, exitStatus, genCode>>
    /\ startOnly

\* part_002:41-43, no URLs: log.Fatal, the process exits with status 1
NoURLsFatal ==
    /\ spc = "check"
    /\ NoURLs(urls)
    /\ exitStatus' = 1
    /\ spc' = "exited"
    /\ UNCHANGED <<urlList, urlFile, generateCode, urls, fileURLs, fileErr, genCode>>
    /\ startOnly

\* part_002:41-45, there are URLs
HaveURLs ==
    /\ spc = "check"
    /\ ~NoURLs(urls)
    /\ spc' = "mode"
    /\ UNCHANGED <<urlList, urlFile, generateCode, urls, fileURLs, fileErr, exitStatus,
                   genCode>>
    /\ startOnly

\* part_002:47-52 and part_001:126-145, GenCode returns and os.Exit(0)
GenCodeOk ==
    /\ spc = "mode"
    /\ generateCode
    /\ genCode' = "ok"
    /\ exitStatus' = 0
    /\ spc' = "exited"
    /\ UNCHANGED <<urlList, urlFile, generateCode, urls, fileURLs, fileErr>>
    /\ startOnly

\* part_001:127-131 and 138-142, InitializeClient or GetMe fails inside
\* GenCode: log.Fatal, the process exits with status 1
GenCodeFatal ==
    /\ spc = "mode"
    /\ generateCode
    /\ genCode' = "fatal"
    /\ exitStatus' = 1
    /\ spc' = "exited"
    /\ UNCHANGED <<urlList, urlFile, generateCode, urls, fileURLs, fileErr>>
    /\ startOnly

\* part_002:54, launch(urls, crawlerCfg) is entered
CallLaunch ==
    /\ spc = "mode"
    /\ ~generateCode
    /\ pc = "idle"
    /\ stringList' = urls
    /\ pc' = "start"
    /\ spc' = "crawl"
    /\ UNCHANGED <<store, loaded, resumed, list, seenURLs, i, j, la, outlinks, now,
                   visits, storeCalls>>
    /\ UNCHANGED <<urlList, urlFile, generateCode, urls, fileURLs, fileErr, exitStatus,
                   genCode>>
    /\ UNCHANGED <<launchHist, parseVars, parseHist, uidVars, clientVars>>

\* part_002:54-56, launch has run and returns; "Crawling completed"
LaunchReturns ==
    /\ spc = "crawl"
    /\ pc' = "done"
    /\ spc' = "returned"
    /\ UNCHANGED <<stringList, store, loaded, resumed, list, seenURLs, i, j, la,
                   outlinks, now, visits, storeCalls>>
    /\ UNCHANGED <<urlList, urlFile, generateCode, urls, fileURLs, fileErr, exitStatus,
                   genCode>>
    /\ UNCHANGED <<launchHist, parseVars, parseHist, uidVars, clientVars>>

\* StartDaprStandaloneMode is not running
StartIdle ==
    /\ urlList = <<>>
    /\ urlFile = NoUrlFile
    /\ generateCode = FALSE
    /\ spc = "idle"
    /\ urls = <<>>
    /\ fileURLs = <<>>
    /\ fileErr = FALSE
    /\ exitStatus = NoExit
    /\ genCode = "none"

(* ------------------ ParseMessage: PostUID of two messages -------------- *)

\* longest message number (last segment of a permalink) examined
MaxNumberLen == 2

\* longest channel name examined
MaxNameLen == 2

\* the characters of message numbers and channel names examined
UidChars == {"1", "-"}

\* what precedes the message number in the permalinks examined
LinkPrefixes == {<<>>, <<"c", Slash>>, <<"d", Slash>>}

\* the permalinks (mlr.Link) and channel names (channelName) examined
PairLinks == {pre \o n : pre \in LinkPrefixes, n \in SeqsUpTo(UidChars, MaxNumberLen)}
PairNames == SeqsUpTo(UidChars, MaxNameLen) \ {<<>>}
PairMessages == [link : PairLinks, channel : PairNames]

\* part_001:339-342, messageNumber = linkParts[len(linkParts)-1]
MessageNumberOf(link) == Split(link, Slash)[Len(Split(link, Slash))]

\* part_001:339-342 and 465, messageNumber and postUid of message m
NumberAndUID(m) ==
    [number |-> MessageNumberOf(m.link),
     uid |-> PostUidOf(MessageNumberOf(m.link), m.channel)]

\* ParseMessage computes messageNumber and postUid of the first message
ExtractFirst ==
    /\ upc = 0
    /\ pairNumber' = [pairNumber EXCEPT ![1] = NumberAndUID(pairMsgs[1]).number]
    /\ pairUID' = [pairUID EXCEPT ![1] = NumberAndUID(pairMsgs[1]).uid]
    /\ upc' = 1
    /\ UNCHANGED pairMsgs
    /\ UNCHANGED <<launchVars, launchHist, parseVars, parseHist, startVars, clientVars>>

\* ParseMessage computes messageNumber and postUid of the second message
ExtractSecond ==
    /\ upc = 1
    /\ pairNumber' = [pairNumber EXCEPT ![2] = NumberAndUID(pairMsgs[2]).number]
    /\ pairUID' = [pairUID EXCEPT ![2] = NumberAndUID(pairMsgs[2]).uid]
    /\ upc' = 2
    /\ UNCHANGED pairMsgs
    /\ UNCHANGED <<launchVars, launchHist, parseVars, parseHist, startVars, clientVars>>

\* no pair of messages is being compared
UidIdle ==
    /\ pairMsgs = <<>>
    /\ pairNumber = <<>>
    /\ pairUID = <<>>
    /\ upc = 0


(* -------------------------- InitializeClient --------------------------- *)

\* part_001:91, time.After(30 * time.Second)
TimeoutSeconds == 30

\* what InitializeClient finds: whether TG_API_ID is an integer, whether
\* os.Getwd and os.MkdirTemp succeed
Envs == [apiId : BOOLEAN, getwd : BOOLEAN, mkdir : BOOLEAN]

NoResult == "none"

\* what a step of InitializeClient leaves alone
clientOnly == UNCHANGED <<launchVars, launchHist, parseVars, parseHist, startVars, uidVars>>

\* part_001:34-38, TG_API_ID is not an integer: log.Fatal, the process exits
AtoiFatal ==
    /\ ipc = "env"
    /\ ~env.apiId
    /\ ipc' = "exited"
    /\ UNCHANGED <<env, gpc, elapsed, initResult>>
    /\ clientOnly

\* part_001:42-51, os.Getwd or os.MkdirTemp fails: return nil, err
TempDirFails ==
    /\ ipc = "env"
    /\ env.apiId
    /\ ~(env.getwd /\ env.mkdir)
    /\ initResult' = "error"
    /\ ipc' = "returned"
    /\ UNCHANGED <<env, gpc, elapsed>>
    /\ clientOnly

\* part_001:54-82, the parameters are sent to the authorizer, the two
\* unbuffered channels are made and the goroutine is started
StartGoroutine ==
    /\ ipc = "env"
    /\ env.apiId /\ env.getwd /\ env.mkdir
    /\ gpc' = "creating"
    /\ ipc' = "select"
    /\ UNCHANGED <<env, elapsed, initResult>>
    /\ clientOnly

\* part_001:76-81, client.NewClient returns a client: the goroutine is at
\* clientReady <- tdlibClient
NewClientOk ==
    /\ gpc = "creating"
    /\ gpc' = "sendClient"
    /\ UNCHANGED <<env, ipc, elapsed, initResult>>
    /\ clientOnly

\* part_001:76-79, client.NewClient returns an error: the goroutine is at
\* errChan <- err
NewClientFails ==
    /\ gpc = "creating"
    /\ gpc' = "sendError"
    /\ UNCHANGED <<env, ipc, elapsed, initResult>>
    /\ clientOnly

\* a second passes while InitializeClient waits in the select
Tick ==
    /\ ipc = "select"
    /\ elapsed < TimeoutSeconds
    /\ elapsed' = elapsed + 1
    /\ UNCHANGED <<env, ipc, gpc, initResult>>
    /\ clientOnly

\* part_001:81 and 85-87, the send on clientReady meets the receive of the
\* select: the goroutine ends, InitializeClient returns the client
ReceiveClient ==
    /\ ipc = "select"
    /\ gpc = "sendClient"
    /\ gpc' = "done"
    /\ initResult' = "client"
    /\ ipc' = "returned"
    /\ UNCHANGED <<env, elapsed>>
    /\ clientOnly

\* part_001:78 and 88-90, the send on errChan meets the receive of the
\* select: log.Fatal, the process exits before return nil, err
ReceiveError ==
    /\ ipc = "select"
    /\ gpc = "sendError"
    /\ gpc' = "done"
    /\ ipc' = "exited"
    /\ UNCHANGED <<env, elapsed, initResult>>
    /\ clientOnly

\* part_001:91-93, the timer fires: InitializeClient returns the timeout
\* error; the goroutine goes on
TimeoutFires ==
    /\ ipc = "select"
    /\ elapsed = TimeoutSeconds
    /\ initResult' = "timeout"
    /\ ipc' = "returned"
    /\ UNCHANGED <<env, gpc, elapsed>>
    /\ clientOnly

\* InitializeClient is not running
ClientIdle ==
    /\ env = [apiId |-> TRUE, getwd |-> TRUE, mkdir |-> TRUE]
    /\ ipc = "idle"
    /\ gpc = "none"
    /\ elapsed = 0
    /\ initResult = NoResult

\* ParseMessage calls made for one message: it is extracted twice
MaxExtractions == 2

\* ParseMessage is called again with the same arguments (the message is
\* extracted again, as after a crash and resume); the store keeps what it
\* holds, the histories of downloads, uploads and comment fetches are those
\* of the call in progress
Reextract ==
    /\ ppc = "returned"
    /\ calls < MaxExtractions
    /\ calls' = calls + 1
    /\ firstPost' = post
    /\ ppc' = "call"
    /\ defers' = <<>>
    /\ post' = ZeroPost
    /\ perr' = NoError
    /\ messageNumber' = <<>>
    /\ comments' = 0
    /\ description' = ""
    /\ thumbnailPath' = NoRemoteId
    /\ videoPath' = NoRemoteId
    /\ reactions' = <<>>
    /\ faulted' = "none"
    /\ downloads' = <<>>
    /\ uploads' = <<>>
    /\ uploadResults' = <<>>
    /\ commentFetches' = 0
    /\ commentsFailed' = FALSE
    /\ UNCHANGED <<msg, storeDataCalls, records, storeArgs, byUID>>
    /\ launchIdle

\* the state when launch is entered: its seed argument and what the store
\* holds from a previous run
LaunchInit ==
    /\ stringList \in SeedLists
    /\ store \in {NoFrontier} \cup StoredFrontiers
    /\ loaded = <<>>
    /\ resumed = FALSE
    /\ list = <<>>
    /\ seenURLs = {}
    /\ i = 0
    /\ j = 0
    /\ la = NoPage
    /\ outlinks = <<>>
    /\ pc = "start"
    /\ now = 0
    /\ visits = <<>>
    /\ storeCalls = 0
    /\ storeFailures = 0
    /\ run = 1
    /\ behaviour = <<>>
    /\ firstRun = <<>>

\* ParseMessage is not running
ParseIdle ==
    /\ msg = NilMessage
    /\ ppc = "idle"
    /\ defers = <<>>
    /\ post = ZeroPost
    /\ perr = NoError
    /\ messageNumber = <<>>
    /\ comments = 0
    /\ description = ""
    /\ thumbnailPath = NoRemoteId
    /\ videoPath = NoRemoteId
    /\ reactions = <<>>
    /\ downloads = <<>>
    /\ uploads = <<>>
    /\ commentFetches = 0
    /\ storeDataCalls = 0
    /\ records = {}
    /\ faulted = "none"
    /\ uploadResults = <<>>
    /\ storeArgs = <<>>
    /\ byUID = <<>>
    /\ calls = 0
    /\ firstPost = ZeroPost
    /\ commentsFailed = FALSE

Init == LaunchInit /\ ParseIdle /\ StartIdle /\ UidIdle /\ ClientIdle

Next ==
    \/ SeedSetupLoad
    \/ SeedSetupFresh
    \/ SeedSetupFail
    \/ SkipFetched
    \/ BeginVisit
    \/ RunError
    \/ RunPanic
    \/ RunOk
    \/ Merge
    \/ StoreLayers
    \/ NextLayer
    \/ Finish

Spec == Init /\ [][Next]_vars

\* launch is one sequential thread: whenever it can take a step it does
FairSpec == Spec /\ WF_vars(Next)

\* launch with a store whose writes may fail
NextStoreFail == Next \/ StoreLayersFail

SpecStoreFail == Init /\ [][NextStoreFail]_vars

\* what crawl.Run does with a page: an error, a panic, or outlinks
VisitResult(outcome, ols) == [Outcome |-> outcome, Outlinks |-> ols]

VisitResults ==
    {VisitResult("error", <<>>), VisitResult("panic", <<>>)} \cup
    {VisitResult("ok", ols) : ols \in SeqsUpTo(Ids, MaxOutlinks)}

\* a visit behaviour: what crawl.Run does for each identifier
Behaviours == [Ids -> VisitResults]

\* launch is entered on a store that holds a frontier, and crawl.Run
\* follows one fixed behaviour
InitTwoRuns ==
    /\ stringList \in SeedLists
    /\ store \in StoredFrontiers
    /\ loaded = <<>>
    /\ resumed = FALSE
    /\ list = <<>>
    /\ seenURLs = {}
    /\ i = 0
    /\ j = 0
    /\ la = NoPage
    /\ outlinks = <<>>
    /\ pc = "start"
    /\ now = 0
    /\ visits = <<>>
    /\ storeCalls = 0
    /\ storeFailures = 0
    /\ run = 1
    /\ behaviour \in Behaviours
    /\ firstRun = <<>>
    /\ ParseIdle
    /\ StartIdle
    /\ UidIdle
    /\ ClientIdle

\* the steps of a resumed launch
ResumedStep ==
    \/ SeedSetupLoad
    \/ SkipFetched
    \/ BeginVisit
    \/ RunError
    \/ RunPanic
    \/ RunOk
    \/ Merge
    \/ StoreLayers
    \/ NextLayer
    \/ Finish

\* crawl.Run does what the behaviour says for the page it is given
FollowsBehaviour ==
    pc = "run" =>
        /\ visits'[Len(visits)].Outcome = behaviour[la.URL].Outcome
        /\ behaviour[la.URL].Outcome = "ok" => outlinks' = behaviour[la.URL].Outlinks

\* the result of a launch: the pages it visited and the frontier it ended
\* with
RunResult(vs, ls) == [visits |-> vs, list |-> ls]

\* launch has returned; it is called again, with any seeds, on the frontier
\* the store held when the first launch was entered
Rerun ==
    /\ pc = "done"
    /\ run = 1
    /\ run' = 2
    /\ firstRun' = RunResult(visits, list)
    /\ stringList' \in SeedLists
    /\ store' = loaded
    /\ loaded' = <<>>
    /\ resumed' = FALSE
    /\ list' = <<>>
    /\ seenURLs' = {}
    /\ i' = 0
    /\ j' = 0
    /\ la' = NoPage
    /\ outlinks' = <<>>
    /\ pc' = "start"
    /\ now' = 0
    /\ visits' = <<>>
    /\ storeCalls' = 0
    /\ UNCHANGED <<storeFailures, behaviour>>
    /\ UNCHANGED <<parseVars, parseHist, startVars, uidVars, clientVars>>

NextTwoRuns == (ResumedStep /\ FollowsBehaviour) \/ Rerun

\* two resumed launches from the same stored frontier with the same visit
\* behaviour
SpecTwoRuns == InitTwoRuns /\ [][NextTwoRuns]_vars

\* launch is not running
LaunchIdle ==
    /\ stringList = <<>>
    /\ store = NoFrontier
    /\ loaded = <<>>
    /\ resumed = FALSE
    /\ list = <<>>
    /\ seenURLs = {}
    /\ i = 0
    /\ j = 0
    /\ la = NoPage
    /\ outlinks = <<>>
    /\ pc = "idle"
    /\ now = 0
    /\ visits = <<>>
    /\ storeCalls = 0
    /\ storeFailures = 0
    /\ run = 1
    /\ behaviour = <<>>
    /\ firstRun = <<>>

\* ParseMessage is called with any message, on an empty store
InitParse ==
    /\ LaunchIdle
    /\ StartIdle
    /\ UidIdle
    /\ ClientIdle
    /\ msg \in Messages
    /\ ppc = "call"
    /\ defers = <<>>
    /\ post = ZeroPost
    /\ perr = NoError
    /\ messageNumber = <<>>
    /\ comments = 0
    /\ description = ""
    /\ thumbnailPath = NoRemoteId
    /\ videoPath = NoRemoteId
    /\ reactions = <<>>
    /\ downloads = <<>>
    /\ uploads = <<>>
    /\ commentFetches = 0
    /\ storeDataCalls = 0
    /\ records = {}
    /\ faulted = "none"
    /\ uploadResults = <<>>
    /\ storeArgs = <<>>
    /\ byUID = <<>>
    /\ calls = 1
    /\ firstPost = ZeroPost
    /\ commentsFailed = FALSE

NextParse ==
    \/ Enter
    \/ NilMessagePanic
    \/ CutoffSkip
    \/ CutoffPass
    \/ SplitLink
    \/ CommentsNone
    \/ CommentsFetch
    \/ CommentsPanic
    \/ Dispatch
    \/ DispatchPanic
    \/ Reactions
    \/ Assemble
    \/ AssemblePanic
    \/ StoreData
    \/ StoreDataPanic

SpecParse == InitParse /\ [][NextParse]_vars

\* ParseMessage is called up to MaxExtractions times with the same message
NextReparse == NextParse \/ Reextract

SpecReparse == InitParse /\ [][NextReparse]_vars

\* StartDaprStandaloneMode is called with any arguments
InitStart ==
    /\ LaunchIdle
    /\ ParseIdle
    /\ UidIdle
    /\ ClientIdle
    /\ urlList \in UrlLists
    /\ urlFile \in UrlFiles
    /\ generateCode \in BOOLEAN
    /\ spc = "start"
    /\ urls = <<>>
    /\ fileURLs = <<>>
    /\ fileErr = FALSE
    /\ exitStatus = NoExit
    /\ genCode = "none"

NextStart ==
    \/ CollectList
    \/ SkipFile
    \/ ReadURLsFromFile
    \/ FileFatal
    \/ AppendFileURLs
    \/ NoURLsFatal
    \/ HaveURLs
    \/ GenCodeOk
    \/ GenCodeFatal
    \/ CallLaunch
    \/ LaunchReturns

SpecStart == InitStart /\ [][NextStart]_vars

\* what a crashed launch leaves behind for the history: the visits it made,
\* its in-memory frontier and the position it was killed at
CrashResult(vs, ls, at) == [visits |-> vs, list |-> ls, at |-> at]

\* the process is killed while launch runs (part_002:91-189) and started
\* again with the same seeds: the locals are lost, the store keeps what the
\* last StoreLayers call (part_002:180) wrote
Crash ==
    /\ pc \in {"start", "loop", "run", "merge", "store"}
    /\ run = 1
    /\ run' = 2
    /\ firstRun' = CrashResult(visits, list, pc)
    /\ loaded' = <<>>
    /\ resumed' = FALSE
    /\ list' = <<>>
    /\ seenURLs' = {}
    /\ i' = 0
    /\ j' = 0
    /\ la' = NoPage
    /\ outlinks' = <<>>
    /\ pc' = "start"
    /\ now' = 0
    /\ visits' = <<>>
    /\ storeCalls' = 0
    /\ UNCHANGED <<stringList, store>>
    /\ UNCHANGED <<storeFailures, behaviour>>
    /\ UNCHANGED <<parseVars, parseHist, startVars, uidVars, clientVars>>

NextCrash == Next \/ Crash

\* a launch that is killed at any point and resumed
SpecCrash == Init /\ [][NextCrash]_vars

\* InitializeClient is called, in any environment
InitClient ==
    /\ LaunchIdle
    /\ ParseIdle
    /\ StartIdle
    /\ UidIdle
    /\ env \in Envs
    /\ ipc = "env"
    /\ gpc = "none"
    /\ elapsed = 0
    /\ initResult = NoResult

NextClient ==
    \/ AtoiFatal
    \/ TempDirFails
    \/ StartGoroutine
    \/ NewClientOk
    \/ NewClientFails
    \/ Tick
    \/ ReceiveClient
    \/ ReceiveError
    \/ TimeoutFires

SpecClient == InitClient /\ [][NextClient]_vars

\* the stored frontiers that hold the seed layer only: a previous run was
\* stopped before it discovered a page
SeedLayerFrontiers == {f \in StoredFrontiers : \A k \in 1..Len(f) : f[k].Depth = 0}

\* launch is entered on an empty store or on a stored seed layer
InitErrorOutlinks ==
    /\ Init
    /\ store \in {NoFrontier} \cup SeedLayerFrontiers

\* launch when crawl.Run may return outlinks together with an error
NextErrorOutlinks == Next \/ RunErrorWithOutlinks

SpecErrorOutlinks == InitErrorOutlinks /\ [][NextErrorOutlinks]_vars

\* ParseMessage is about to compute the PostUID of any two messages
InitUID ==
    /\ LaunchIdle
    /\ ParseIdle
    /\ StartIdle
    /\ ClientIdle
    /\ pairMsgs \in [1..2 -> PairMessages]
    /\ pairNumber = [k \in 1..2 |-> <<>>]
    /\ pairUID = [k \in 1..2 |-> <<>>]
    /\ upc = 0

NextUID == ExtractFirst \/ ExtractSecond

SpecUID == InitUID /\ [][NextUID]_vars


(* ------------------------- launch: properties ------------------------- *)

PagesWithURL(pages, url) == {k \in 1..Len(pages) : pages[k].URL = url}
LayersWithURL(ls, url) == {k \in 1..Len(ls) : url \in LayerURLs(ls, k)}
FailedVisits == {k \in 1..Len(visits) : visits[k].Outcome \in {"error", "panic"}}
VisitsOf(url) == {k \in 1..Len(visits) : visits[k].URL = url}
AllPages(ls) == UNION {Range(ls[k].Pages) : k \in 1..Len(ls)}
InVisit == pc \in {"run", "merge", "store"}

\* C1: in every reachable state of a fresh or resumed run, no identifier
\* appears in more than one layer of the frontier.
C1_NoIdentifierInTwoLayers ==
    \A u \in Ids : Cardinality(LayersWithURL(list, u)) <= 1

\* C2: when the visit fails (error or panic) on exactly one page, then at
\* the end of launch that page and only that page has Status error in the
\* frontier, and every other page was visited unless already fetched and
\* has Status fetched.
C2_OnlyFailedPageMarkedError ==
    (pc = "done" /\ Cardinality(FailedVisits) = 1) =>
        \A p \in AllPages(list) :
            /\ p.Status = Error <=> \E k \in FailedVisits : visits[k].URL = p.URL
            /\ p.Status # Error =>
                   /\ p.Status = Fetched
                   /\ VisitsOf(p.URL) # {} \/ p \in AllPages(loaded)

\* C3: on a resumed run the pages loaded as fetched are never visited and
\* stay in the frontier with their URL and Status, and when launch ends
\* every loaded non-fetched page has been visited exactly once.
C3_ResumeVisitsExactlyNonFetched ==
    resumed =>
        \A p \in AllPages(loaded) :
            /\ p.Status = Fetched =>
                   /\ VisitsOf(p.URL) = {}
                   /\ \E q \in AllPages(list) : q.URL = p.URL /\ q.Status = Fetched
            /\ (p.Status # Fetched /\ pc = "done") =>
                   Cardinality(VisitsOf(p.URL)) = 1

\* C4: once a visit attempt has returned, the frontier's own page (the one
\* StoreLayers is about to receive) carries the outcome, fetched or error,
\* and the attempt timestamp.
C4_FrontierPageCarriesOutcome ==
    pc = "store" =>
        /\ CurrentPage.URL = la.URL
        /\ CurrentPage.Status = la.Status
        /\ CurrentPage.Status \in {Fetched, Error}
        /\ CurrentPage.Timestamp = la.Timestamp

\* C5: every visit attempt, panics included, is followed by exactly one
\* StoreLayers call before the next visit begins (and before launch ends).
C5_OneStorePerVisit ==
    storeCalls = (IF InVisit THEN Len(visits) - 1 ELSE Len(visits))

\* C6: a page enters a layer only while the outlinks of a successful visit
\* are merged, it is one of those outlinks, and the layer's depth is one
\* more than the depth of the visited page; so every page of a layer of
\* depth D > 0 was loaded at that depth or discovered from depth D - 1.
C6_AddedOneLayerDeeper ==
    [][pc # "start" =>
        \A k \in 1..Len(list') :
            (LayerURLs(list', k) \ (IF k <= Len(list) THEN LayerURLs(list, k) ELSE {})) # {} =>
                /\ pc = "merge"
                /\ visits[Len(visits)] = Visit(la.URL, CurrentLayer.Depth, "ok")
                /\ list'[k].Depth = CurrentLayer.Depth + 1
                /\ k = i + 2
                /\ (LayerURLs(list', k) \ (IF k <= Len(list) THEN LayerURLs(list, k) ELSE {}))
                       \subseteq Range(outlinks)]_vars

\* a fresh run has discovered a page at depth 1
C6_Witness ==
    /\ ~resumed
    /\ pc = "store"
    /\ Len(list) = 2
    /\ list[2].Depth = 1
    /\ list[2].Pages # <<>>

\* C7: after a successful visit the pages added to the next layer are the
\* distinct outlinks outside the seen set, each once; outlinks already seen,
\* the seeds and the visited page among them, and repeats add nothing.
C7_AddedExactlyUnseenOutlinks ==
    [][pc = "merge" =>
        /\ Range(stringList) \cup {la.URL} \subseteq seenURLs
        /\ seenURLs' = seenURLs \cup Range(outlinks)
        /\ Range(outlinks) \subseteq seenURLs => list' = list
        /\ ~(Range(outlinks) \subseteq seenURLs) =>
              /\ Len(list') >= i + 2
              /\ LayerURLs(list', i + 2) =
                     (IF i + 2 <= Len(list) THEN LayerURLs(list, i + 2) ELSE {})
                         \cup (Range(outlinks) \ seenURLs)
              /\ \A u \in Range(outlinks) \ seenURLs :
                     Cardinality(PagesWithURL(list'[i + 2].Pages, u)) = 1]_vars

\* C8: when launch ends every page of every layer has Status fetched or
\* error, and no page was visited more than once.
C8_AllPagesSettledAtEnd ==
    pc = "done" =>
        /\ \A p \in AllPages(list) : p.Status \in {Fetched, Error}
        /\ \A u \in Ids : Cardinality(VisitsOf(u)) <= 1

\* launch terminates (checked under FairSpec)
LaunchTerminates == <>(pc = "done")

(* ---------------------- ParseMessage: properties ----------------------- *)

\* C9: no panic escapes ParseMessage, and whenever a runtime fault occurred
\* during extraction ParseMessage returns a non-nil error, also for
\* messages with reply info or reactions.
C9_FaultGivesError ==
    faulted # "none" => (ppc = "returned" /\ perr # NoError)

LastSegment(s) ==
    LET cut == IF \E k \in 1..Len(s) : s[k] = Slash
               THEN CHOOSE k \in 1..Len(s) :
                        s[k] = Slash /\ \A m \in (k + 1)..Len(s) : s[m] # Slash
               ELSE 0
    IN  SubSeq(s, cut + 1, Len(s))

ExpectedUID(m) == LastSegment(m.link) \o <<"-">> \o m.channel

StoredOk == SelectSeq(storeArgs, LAMBDA c : c.result = StoreOk)

\* C11: every record an extraction of a message yields has the PostUID
\* <last '/'-segment of the permalink>-<channel name>, so two extractions
\* of the same message yield the same PostUID whatever the comment fetch,
\* the uploads and StoreData did; the store keyed by PostUID then holds one
\* record, the last one stored, as if only that one had been stored.
C11_SamePostUID ==
    /\ post # ZeroPost => post.PostUID = ExpectedUID(msg)
    /\ firstPost # ZeroPost => firstPost.PostUID = ExpectedUID(msg)
    /\ (post # ZeroPost /\ firstPost # ZeroPost) => post.PostUID = firstPost.PostUID
    /\ \A k \in 1..Len(storeArgs) : storeArgs[k].post.PostUID = ExpectedUID(msg)
    /\ byUID = (IF StoredOk = <<>> THEN <<>>
                ELSE KeyedPut(<<>>, StoredOk[Len(StoredOk)].post))

\* the message with permalink c/42 was extracted twice, both records were
\* stored and they differ (in their comment count)
C11_Witness ==
    /\ calls = 2
    /\ ppc = "returned"
    /\ msg.link = <<"c", "/", "4", "2">>
    /\ Len(StoredOk) = 2
    /\ firstPost # post
    /\ post.PostUID = <<"4", "2", "-", "c", "h">>

\* C12: for a message that passes the cutoff, when no runtime fault occurs
\* ParseMessage calls StoreData exactly once, with the assembled record,
\* and returns that record and a nil error whether StoreData succeeded or
\* failed.
C12_StoredOnceAndReturned ==
    /\ storeDataCalls = Len(storeArgs)
    /\ storeDataCalls <= 1
    /\ (ppc = "returned" /\ faulted = "none" /\ ~msg.nilMsg /\ ~(msg.year < CutoffYear)) =>
           /\ storeDataCalls = 1
           /\ storeArgs[1].post = AssembledPost
           /\ post = storeArgs[1].post
           /\ perr = NoError
           /\ records = (IF storeArgs[1].result = StoreOk THEN {post} ELSE {})

\* ParseMessage has returned a photo record (after an upload error) although
\* StoreData failed
C12_Witness ==
    /\ ppc = "returned"
    /\ faulted = "none"
    /\ msg.kind = "photo"
    /\ uploadResults = <<UploadError>>
    /\ Len(storeArgs) = 1
    /\ storeArgs[1].result = StoreError
    /\ post.PostLink = msg.link
    /\ records = {}

\* C19: for a photo message whose thumbnail download and upload both
\* succeed, the returned record's ThumbURL is the reference of the uploaded
\* blob, never the local path the download returned, and that local path
\* was handed to UploadBlobFileAndDelete before ParseMessage returned.
C19_ThumbURLIsBlobReference ==
    (/\ ppc = "returned"
     /\ faulted = "none"
     /\ msg.kind = "photo"
     /\ ~(msg.year < CutoffYear)
     /\ uploads = <<LocalPath(ThumbRemoteId)>>
     /\ uploadResults = <<UploadOk>>) =>
        /\ post.ThumbURL = BlobRef(msg)
        /\ post.ThumbURL # LocalPath(ThumbRemoteId)
        /\ downloads = <<ThumbRemoteId>>
        /\ uploads[1] \in FetchResults(downloads[1])

\* C20: for video, video-note and document messages ParseMessage downloads
\* two different files, the thumbnail by the thumbnail's remote id and the
\* media body by the media's remote id, and hands the path each download
\* returned to UploadBlobFileAndDelete.
C20_ThumbnailAndMediaFetched ==
    (/\ ppc \in {"reactions", "assemble", "store"}
     /\ msg.kind \in {"video", "videoNote", "document"}
     /\ ~msg.corrupt) =>
        /\ downloads = <<ThumbRemoteId, MediaRemoteId>>
        /\ Len(uploads) = 2
        /\ \A k \in 1..2 : uploads[k] \in FetchResults(downloads[k])

\* the pages of the layer of depth d that a pass over it has to visit
ToVisitAt(d) ==
    {p \in UNION {Range(list[k].Pages) : k \in {m \in 1..Len(list) : list[m].Depth = d}} :
        p.Status # Fetched}

\* C15: launch visits the layers in strictly increasing depth order: the
\* depths of the layers increase along the frontier, the depth of the
\* visited pages never decreases, and when a page of depth D + 1 is visited
\* every non-fetched page of the layer of depth D has been visited at
\* depth D, although the layer of depth D + 1 grew during that pass.
C15_LayersInDepthOrder ==
    /\ \A k \in 1..(Len(list) - 1) : list[k].Depth < list[k + 1].Depth
    /\ \A k \in 1..(Len(visits) - 1) : visits[k].Depth <= visits[k + 1].Depth
    /\ \A k \in 1..Len(visits) :
           \A p \in ToVisitAt(visits[k].Depth - 1) :
               \E m \in 1..(k - 1) :
                   visits[m].URL = p.URL /\ visits[m].Depth = visits[k].Depth - 1

\* a page discovered during the pass over depth 0 is being visited at
\* depth 1, after the page of depth 0
C15_Witness ==
    /\ pc = "run"
    /\ Len(visits) = 2
    /\ visits[1].Depth = 0
    /\ visits[2].Depth = 1
    /\ \A p \in AllPages(loaded) : p.URL # la.URL

\* the status a finished visit gives its page
StatusAfter(outcome) == IF outcome = "ok" THEN Fetched ELSE Error

\* frontier s holds every page of the in-memory frontier, and for every
\* visit that returned it holds the visited page with the status the visit
\* gave it
Carries(s) ==
    /\ Len(s) = Len(list)
    /\ \A k \in 1..Len(list) : LayerURLs(list, k) \subseteq LayerURLs(s, k)
    /\ \A k \in 1..Len(visits) :
           visits[k].Outcome \in {"ok", "error"} =>
               \E n \in 1..Len(s) : \E p \in Range(s[n].Pages) :
                   /\ s[n].Depth = visits[k].Depth
                   /\ p.URL = visits[k].URL
                   /\ p.Status = StatusAfter(visits[k].Outcome)

\* C14: a failed StoreLayers call leaves the in-memory frontier and the
\* seen set as they were and the run goes on to the next page; every
\* successful StoreLayers call after a failure stores all pages added and
\* all status changes made up to that call.
C14_FailedStoreIsCaughtUp ==
    [][pc = "store" =>
        /\ storeFailures' = storeFailures + 1 =>
               /\ list' = list
               /\ seenURLs' = seenURLs
               /\ store' = store
               /\ pc' = "loop"
               /\ j' = j + 1
        /\ (storeFailures' = storeFailures /\ storeFailures > 0) => Carries(store')]_vars

\* the pages a launch visited, with the depth they were visited at
VisitedPages(vs) == {[URL |-> vs[k].URL, Depth |-> vs[k].Depth] : k \in 1..Len(vs)}

\* two frontiers with the same layers, each holding the same pages (the
\* order of the pages within a layer is that of a Go map iteration)
SameFrontier(l1, l2) ==
    /\ Len(l1) = Len(l2)
    /\ \A k \in 1..Len(l1) :
           l1[k].Depth = l2[k].Depth /\ Range(l1[k].Pages) = Range(l2[k].Pages)

\* C13: when the store holds a frontier the seeds have no effect: a second
\* resumed launch from the same stored frontier, with the same visit
\* behaviour and any other seeds, visits the same pages and ends with the
\* same frontier as the first.
C13_SeedsIgnoredOnResume ==
    (run = 2 /\ pc = "done") =>
        /\ VisitedPages(visits) = VisitedPages(firstRun.visits)
        /\ SameFrontier(list, firstRun.list)

(* ----------------- StartDaprStandaloneMode: properties ----------------- *)

\* the lines of a file: the stretches between newlines, by start position
LineStarts(data) == {1} \cup {k + 1 : k \in {n \in 1..Len(data) : data[n] = Newline}}

LineAt(data, start) ==
    LET ends == {n \in start..Len(data) : data[n] = Newline}
        stop == IF ends = {} THEN Len(data) + 1
                ELSE CHOOSE n \in ends : \A m \in ends : n <= m
    IN  SubSeq(data, start, stop - 1)

\* a line without its leading and trailing whitespace
Trimmed(line) ==
    LET ink == {n \in 1..Len(line) : ~IsSpace(line[n])}
    IN  IF ink = {} THEN <<>>
        ELSE SubSeq(line, CHOOSE n \in ink : \A m \in ink : n <= m,
                          CHOOSE n \in ink : \A m \in ink : m <= n)

\* the starts of the lines that are neither blank nor comments
KeptStarts(data) ==
    {st \in LineStarts(data) :
        Trimmed(LineAt(data, st)) # <<>> /\ Trimmed(LineAt(data, st))[1] # Hash}

ExpectedURLs(data) ==
    [m \in 1..Cardinality(KeptStarts(data)) |->
        Trimmed(LineAt(data, CHOOSE st \in KeptStarts(data) :
                                 Cardinality({t \in KeptStarts(data) : t < st}) = m - 1))]

\* C16: readURLsFromFile returns, in file order, exactly the trimmed lines
\* of the file that are non-empty and do not start with '#', and no error;
\* when the file cannot be read it returns an error and no URLs.
C16_ReadURLsFromFile ==
    spc = "fileread" =>
        IF urlFile.readable
        THEN ~fileErr /\ fileURLs = ExpectedURLs(urlFile.data)
        ELSE fileErr /\ fileURLs = <<>>

\* a file with a URL, a comment line and an indented URL has been read
C16_Witness ==
    /\ spc = "fileread"
    /\ urlFile = ReadableFile(<<"u", Newline, Hash, Newline, " ", "u">>)
    /\ fileURLs = << <<"u">>, <<"u">> >>

\* the URL list and the URLs of the seed file are empty together
NothingSupplied ==
    /\ urlList = <<>>
    /\ (urlFile.given /\ urlFile.readable) => ExpectedURLs(urlFile.data) = <<>>

\* C17: when the URL list together with the URLs read from the seed file is
\* empty, StartDaprStandaloneMode gets no further than the test of
\* len(urls) and exits there with status 1: GenCode is not run and launch
\* (which creates the state manager and visits the pages) is not entered.
C17_NoURLsFatalBeforeWork ==
    NothingSupplied =>
        /\ spc \in {"start", "file", "fileread", "check", "exited"}
        /\ spc = "exited" <=> exitStatus = 1
        /\ exitStatus \in {NoExit, 1}
        /\ genCode = "none"
        /\ pc = "idle"
        /\ visits = <<>>

\* the process has exited on a seed file of blank and comment lines, with
\* the bootstrap flag set
C17_Witness ==
    /\ spc = "exited"
    /\ exitStatus = 1
    /\ urlList = <<>>
    /\ urlFile = ReadableFile(<<Hash, "u", Newline, " ">>)
    /\ generateCode

\* C18: when generateCode is set, whatever the seed arguments, launch is
\* never called and the process exits only after GenCode has run, with
\* status 0 when GenCode completed.
C18_BootstrapRegardlessOfSeeds ==
    generateCode =>
        /\ pc = "idle"
        /\ spc = "exited" => genCode # "none"
        /\ (spc = "exited" /\ genCode = "ok") => exitStatus = 0

\* a permalink that cannot be split into segments: empty, or without '/'
Unsplittable(link) == \A k \in 1..Len(link) : link[k] # Slash

\* a message whose content structure is corrupt: a photo with no sizes, an
\* animation, document or video-note without thumbnail
CorruptStructure(m) ==
    m.corrupt /\ m.kind \in {"photo", "animation", "document", "videoNote"}

Malformed(m) ==
    ~m.nilMsg /\ ~(m.year < CutoffYear) /\ (Unsplittable(m.link) \/ CorruptStructure(m))

\* C21: for a malformed message (permalink that cannot be split into
\* segments, or corrupt content structure) ParseMessage returns the zero
\* record with a nil error and stores nothing.
C21_MalformedYieldsNothing ==
    (ppc = "returned" /\ Malformed(msg)) =>
        /\ post = ZeroPost
        /\ perr = NoError
        /\ storeDataCalls = 0
        /\ records = {}

\* the visits of the crashed launch that returned without error and whose
\* StoreLayers call completed before the crash
Checkpointed(r) ==
    {k \in 1..Len(r.visits) :
        /\ r.visits[k].Outcome = "ok"
        /\ k < Len(r.visits) \/ r.at = "loop"}

\* the pages the crashed launch had visited and the resumed one visits again
VisitedAgain(r) ==
    {u \in Ids : (\E k \in 1..Len(r.visits) : r.visits[k].URL = u) /\ VisitsOf(u) # {}}

\* C22: after a crash of launch at any point and a resume from the last
\* persisted frontier, at most one page visited before the crash is visited
\* again, and every page whose successful visit and following StoreLayers
\* call completed before the crash is skipped.
C22_AtMostOneRevisitAfterCrash ==
    run = 2 =>
        /\ Cardinality(VisitedAgain(firstRun)) <= 1
        /\ \A k \in Checkpointed(firstRun) : VisitsOf(firstRun.visits[k].URL) = {}

EmojisOf(rs) == {rs[k].Emoji : k \in {n \in 1..Len(rs) : rs[n].Type = "emoji"}}

\* the sum of TotalCount over the entries of rs from position k on whose
\* type is the emoji e
RECURSIVE TotalFor(_, _, _)
TotalFor(rs, e, k) ==
    IF k > Len(rs) THEN 0
    ELSE (IF rs[k].Type = "emoji" /\ rs[k].Emoji = e THEN rs[k].TotalCount ELSE 0)
             + TotalFor(rs, e, k + 1)

\* C24: the Reactions mapping of the record holds, for each emoji, the sum
\* of TotalCount over all reaction entries of the message with that emoji;
\* entries with a nil or non-emoji type contribute nothing and cause no
\* fault.
C24_ReactionsSummedPerEmoji ==
    /\ faulted # "reactions"
    /\ (ppc = "returned" /\ post # ZeroPost) =>
           post.Reactions =
               [e \in EmojisOf(msg.reactionList) |-> TotalFor(msg.reactionList, e, 1)]

\* C25: ParseMessage fetches comments if and only if the message has reply
\* info with ReplyCount > 0; when that fetch fails and no runtime fault
\* follows, the record is still assembled, handed to StoreData and returned
\* with a nil error, with zero comments.
C25_CommentsFetchedAndDegraded ==
    /\ commentFetches > 0 => (msg.hasReplyInfo /\ msg.replyCount > 0)
    /\ ppc \in {"dispatch", "reactions", "assemble", "store"} =>
           commentFetches = (IF msg.hasReplyInfo /\ msg.replyCount > 0 THEN 1 ELSE 0)
    /\ commentsFailed => (commentFetches = 1 /\ comments = 0)
    /\ (commentsFailed /\ ppc = "returned" /\ faulted = "none") =>
           /\ post = AssembledPost
           /\ post.PostLink = msg.link
           /\ post.CommentCount = 0
           /\ post.CommentsCount = 0
           /\ perr = NoError
           /\ storeDataCalls = 1
           /\ storeArgs[1].post = post

\* the comment fetch of a text message with one reply failed and the record
\* was stored and returned
C25_Witness ==
    /\ commentsFailed
    /\ ppc = "returned"
    /\ faulted = "none"
    /\ msg.kind = "text"
    /\ msg.replyCount = 1
    /\ records = {post}
    /\ post.CommentCount = 0
    /\ perr = NoError

\* the content-kind table of the description: the field each kind's
\* description is said to come from (sticker and video-note messages carry
\* no caption)
TableDescription(m) ==
    CASE m.kind = "text" -> "Text.Text"
      [] m.kind \in {"photo", "video", "animation", "document"} -> "Caption.Text"
      [] m.kind \in {"sticker", "videoNote"} -> ""
      [] m.kind = "poll" -> "Poll.Question.Text"
      [] m.kind = "giveaway" -> "Prize.GiveawayPrizeType()"
      [] m.kind = "animatedEmoji" -> "Emoji"
      [] m.kind \in {"giveawayWinners", "giveawayCompleted", "unknown"} -> ""

TableKinds ==
    {"text", "photo", "video", "animation", "document", "sticker", "videoNote", "poll",
     "giveaway", "animatedEmoji", "giveawayWinners", "giveawayCompleted", "unknown"}

\* C26: the Description of the record follows the content-kind table (body
\* text, caption, question text, prize-type label, emoji glyph, or empty
\* for giveaway-winners, giveaway-completed and unrecognized kinds), and
\* every kind of the table produces a record with a nil error.
C26_DescriptionFollowsTable ==
    (/\ ppc = "returned"
     /\ faulted = "none"
     /\ ~msg.nilMsg
     /\ ~(msg.year < CutoffYear)
     /\ ~msg.corrupt
     /\ msg.kind \in TableKinds) =>
        /\ post # ZeroPost
        /\ post.PostType = msg.kind
        /\ post.Description = TableDescription(msg)
        /\ perr = NoError

(* ------------------------- PostUID: properties ------------------------- *)

HasDash(s) == \E k \in 1..Len(s) : s[k] = "-"

\* the original wording of C27: two messages that differ in permalink or in
\* channel name never get the same PostUID.
C27_DifferentMessagesDifferentUID ==
    (upc = 2 /\ pairMsgs[1] # pairMsgs[2]) => pairUID[1] # pairUID[2]

\* C27: the PostUID is <last '/'-segment of the permalink>-<channel name>;
\* two messages whose last permalink segments hold no '-' get the same
\* PostUID exactly when they have the same last segment and the same channel
\* name.
C27_UniquePerNumberAndChannel ==
    upc = 2 =>
        /\ \A k \in 1..2 : pairUID[k] = ExpectedUID(pairMsgs[k])
        /\ (~HasDash(LastSegment(pairMsgs[1].link)) /\ ~HasDash(LastSegment(pairMsgs[2].link))) =>
               (pairUID[1] = pairUID[2] <=>
                    /\ LastSegment(pairMsgs[1].link) = LastSegment(pairMsgs[2].link)
                    /\ pairMsgs[1].channel = pairMsgs[2].channel)

\* messages 1 and 11 of two channels whose names hold a '-' got different
\* PostUIDs
C27_Witness ==
    /\ upc = 2
    /\ pairMsgs[1] = [link |-> <<"c", Slash, "1">>, channel |-> <<"1", "-">>]
    /\ pairMsgs[2] = [link |-> <<"c", Slash, "1", "1">>, channel |-> <<"-">>]
    /\ pairUID[1] = <<"1", "-", "1", "-">>
    /\ pairUID[2] = <<"1", "1", "-", "-">>

(* ------------------ launch: properties of a failed visit --------------- *)

\* frontier l2 is frontier l1 but for the Status and Timestamp of the page
\* at position jj of layer ii (both counted from 0)
SameButStatusAt(l1, l2, ii, jj) ==
    /\ Len(l2) = Len(l1)
    /\ \A k \in 1..Len(l1) :
           /\ l2[k].Depth = l1[k].Depth
           /\ Len(l2[k].Pages) = Len(l1[k].Pages)
           /\ \A n \in 1..Len(l1[k].Pages) :
                  /\ l2[k].Pages[n].URL = l1[k].Pages[n].URL
                  /\ (k # ii + 1 \/ n # jj + 1) => l2[k].Pages[n] = l1[k].Pages[n]

\* C28: when crawl.Run returns an error the outlinks returned with it are
\* discarded: from the return of the visit to the end of its StoreLayers
\* call no page is added to any layer, no layer is created, the seen set is
\* unchanged and the frontier changes at most in the status of the visited
\* page; the frontier handed to the store is that frontier.
C28_ErrorVisitDiscardsOutlinks ==
    [][(InVisit /\ Len(visits') = Len(visits) /\ visits'[Len(visits)].Outcome = "error") =>
          /\ seenURLs' = seenURLs
          /\ SameButStatusAt(list, list', i, j)
          /\ pc = "run" => (pc' = "store" /\ store' = store)
          /\ pc # "run" =>
                 /\ pc = "store"
                 /\ pc' = "loop"
                 /\ j' = j + 1
                 /\ i' = i
                 /\ store' = list']_vars

\* crawl.Run has returned an error together with an outlink that was not
\* seen before, and the frontier has one layer
C28_Witness ==
    /\ pc = "store"
    /\ visits[Len(visits)].Outcome = "error"
    /\ \E u \in Range(outlinks) : u \notin seenURLs
    /\ Len(list) = 1

(* -------------------- InitializeClient: properties --------------------- *)

\* C29: the goroutine that creates the client always terminates: whenever
\* it is at its send on clientReady or errChan InitializeClient is still
\* receiving in the select, also once the timeout has fired; and
\* InitializeClient, once past the select, has returned exactly one of
\* client, creation error or timeout error.
C29_GoroutineSendIsReceived ==
    /\ gpc \in {"sendClient", "sendError"} => ipc = "select"
    /\ (gpc # "none" /\ ipc # "select") =>
           /\ ipc = "returned"
           /\ initResult \in {"client", "error", "timeout"}

====
